---- MODULE Spec2Model ----
(***************************************************************************)
(* Model of cuvis::aux::spectral (auxiliary/include/cuvis_spectral.hpp):   *)
(* get_mat_datatype, get_spectrum_polygon and get_histogram.               *)
(*                                                                         *)
(* The three functions are pure; a behaviour is one cube (image_t) chosen  *)
(* by Init followed by one call.  The locals of the called function are    *)
(* kept as variables so that properties can speak about them.              *)
(*                                                                         *)
(* Numbers.  std::double_t values are modelled as exact rationals over     *)
(* arbitrary-precision integers (digit sequences), plus the value "NaN";   *)
(* rounding of double arithmetic is not modelled.  Machine integers keep   *)
(* their width: the product of two promoted 16-bit operands is a 32-bit    *)
(* int, the product of two 32-bit unsigned operands is taken modulo 2^32.  *)
(***************************************************************************)
EXTENDS Integers, Sequences, FiniteSets, TLC

VARIABLES
  img,                    \* image_t<data_t>: the cube the call works on
  pc,                     \* "idle" before the call, "done" after it
  call,                   \* the function called and its arguments
  ret,                    \* [status, value]: what the call returned / how it ended
  transformed_pt,         \* get_spectrum_polygon: the cv::Point vertices
  n,                      \* get_spectrum_polygon: inside-pixel counter
  sum_v,                  \* get_spectrum_polygon: growing sum per channel
  sq_sum_v,               \* get_spectrum_polygon: growing square sum per channel
  incs,                   \* get_spectrum_polygon: the increments applied to the sums
  reads,                  \* indices of img._data read by the call
  wl_reads,               \* indices of img._wavelength read by the call
  chan_reads,             \* get_histogram: channel indices handed to cv::calcHist
  scanned,                \* get_histogram: cube data has been scanned
  max_val,                \* get_histogram: local max_val
  img_channels_per_wlbin, \* get_histogram: local img_channels_per_wlbin
  histogram_count         \* get_histogram: local histogram_count

vars == <<img, pc, call, ret, transformed_pt, n, sum_v, sq_sum_v, incs, reads,
          wl_reads, chan_reads, scanned, max_val, img_channels_per_wlbin, histogram_count>>

----------------------------------------------------------------------------
(* Arbitrary-precision naturals: little-endian digit sequences in base     *)
(* Base without high zero digits; << >> is zero.                           *)

Base == 256

Hd(a) == IF a = << >> THEN 0 ELSE Head(a)

Tl(a) == IF a = << >> THEN << >> ELSE Tail(a)

RECURSIVE NatDigits(_)
NatDigits(k) == IF k = 0 THEN << >> ELSE <<k % Base>> \o NatDigits(k \div Base)

RECURSIVE Trim(_)
Trim(a) ==
  IF a = << >> THEN a
  ELSE IF a[Len(a)] = 0 THEN Trim(SubSeq(a, 1, Len(a) - 1)) ELSE a

RECURSIVE AddC(_, _, _)
AddC(a, b, c) ==
  IF a = << >> /\ b = << >> THEN (IF c = 0 THEN << >> ELSE <<c>>)
  ELSE LET s == Hd(a) + Hd(b) + c
       IN  <<s % Base>> \o AddC(Tl(a), Tl(b), s \div Base)

NAdd(a, b) == AddC(a, b, 0)

RECURSIVE SubB(_, _, _)
SubB(a, b, br) ==
  IF a = << >> THEN << >>
  ELSE LET d == Hd(a) - Hd(b) - br
       IN  <<d % Base>> \o SubB(Tl(a), Tl(b), IF d < 0 THEN 1 ELSE 0)

\* a - b for a >= b
NSub(a, b) == Trim(SubB(a, b, 0))

RECURSIVE NLess(_, _)
NLess(a, b) ==
  IF Len(a) # Len(b) THEN Len(a) < Len(b)
  ELSE IF a = << >> THEN FALSE
  ELSE IF a[Len(a)] # b[Len(b)] THEN a[Len(a)] < b[Len(b)]
  ELSE NLess(SubSeq(a, 1, Len(a) - 1), SubSeq(b, 1, Len(b) - 1))

RECURSIVE MulD(_, _, _)
MulD(a, d, c) ==
  IF a = << >> THEN (IF c = 0 THEN << >> ELSE <<c>>)
  ELSE LET p == Head(a) * d + c
       IN  <<p % Base>> \o MulD(Tail(a), d, p \div Base)

Shift(a) == IF a = << >> THEN << >> ELSE <<0>> \o a

RECURSIVE NMul(_, _)
NMul(a, b) ==
  IF a = << >> \/ b = << >> THEN << >>
  ELSE NAdd(Trim(MulD(b, Head(a), 0)), Shift(NMul(Tail(a), b)))

(* Signed integers [neg, mag]; zero is never negative.                     *)
ZMake(neg, mag) == [neg |-> neg /\ mag # << >>, mag |-> mag]

Z(k) == IF k < 0 THEN ZMake(TRUE, NatDigits(-k)) ELSE ZMake(FALSE, NatDigits(k))

ZNeg(a) == ZMake(~a.neg, a.mag)

ZAdd(a, b) ==
  IF a.neg = b.neg THEN ZMake(a.neg, NAdd(a.mag, b.mag))
  ELSE IF NLess(a.mag, b.mag) THEN ZMake(b.neg, NSub(b.mag, a.mag))
  ELSE ZMake(a.neg, NSub(a.mag, b.mag))

ZMul(a, b) == ZMake(a.neg # b.neg, NMul(a.mag, b.mag))

(* double values.  A rational [kind |-> "num", num, den] with den > 0 (not  *)
(* reduced: compare with FEq), NaN, or the square root of a positive       *)
(* rational that is kept as a radical.                                     *)
QMk(num, den) == [kind |-> "num", num |-> num, den |-> den]

Q(k) == QMk(Z(k), Z(1))

QOfZ(a) == QMk(a, Z(1))

QAdd(p, q) ==
  IF p.den = q.den THEN QMk(ZAdd(p.num, q.num), p.den)
  ELSE QMk(ZAdd(ZMul(p.num, q.den), ZMul(q.num, p.den)), ZMul(p.den, q.den))

QSub(p, q) == QAdd(p, QMk(ZNeg(q.num), q.den))

QMul(p, q) == QMk(ZMul(p.num, q.num), ZMul(p.den, q.den))

QEq(p, q) == ZMul(p.num, q.den) = ZMul(q.num, p.den)

NaN == [kind |-> "nan"]

IsNum(a) == a.kind = "num"

FAdd(a, b) == IF IsNum(a) /\ IsNum(b) THEN QAdd(a, b) ELSE NaN

FSub(a, b) == IF IsNum(a) /\ IsNum(b) THEN QSub(a, b) ELSE NaN

FMul(a, b) == IF IsNum(a) /\ IsNum(b) THEN QMul(a, b) ELSE NaN

\* a / k for an unsigned counter k converted to double.  In this program the
\* dividend is 0.0 whenever k is 0, and 0.0 / 0.0 is NaN.
FDivCount(a, k) ==
  IF IsNum(a) /\ k # 0 THEN QMk(a.num, ZMul(a.den, Z(k))) ELSE NaN

\* sqrt: exact for 0, NaN for a negative radicand, else kept as a radical.
FSqrt(a) ==
  IF ~IsNum(a) THEN NaN
  ELSE IF a.num.mag = << >> THEN Q(0)
  ELSE IF a.num.neg THEN NaN
  ELSE [kind |-> "sqrt", of |-> a]

FEq(a, b) == IsNum(a) /\ IsNum(b) /\ QEq(a, b)

----------------------------------------------------------------------------
(* get_mat_datatype<data_t>(channel_count).  data_t is [cat, size]:        *)
(* cat is "unsigned", "signed" or "floating" (std::is_floating_point,      *)
(* std::is_signed), size is sizeof(data_t).                                *)

CV_8U == 0

CV_8S == 1

CV_16U == 2

CV_16S == 3

CV_32S == 4

CV_32F == 5

CV_64F == 6

CV_16F == 7

CV_CN_SHIFT == 3

CV_MAKETYPE(depth, cn) == depth + (cn - 1) * (2 ^ CV_CN_SHIFT)

Ok(v) == [status |-> "ok", value |-> v]

InvalidArgument(msg) == [status |-> "invalid_argument", value |-> msg]

get_mat_datatype_unsigned4(data_t, channel_count) ==
  IF channel_count < 1 \/ channel_count > 511
  THEN InvalidArgument("Invalid channel count")
  ELSE IF data_t.cat = "unsigned"
  THEN CASE data_t.size = 1 -> Ok(CV_MAKETYPE(CV_8U, channel_count))
         [] data_t.size = 2 -> Ok(CV_MAKETYPE(CV_16U, channel_count))
         [] data_t.size = 4 -> Ok(CV_MAKETYPE(CV_32S, channel_count))
         [] OTHER -> InvalidArgument("Invalid bitdepth for unsigned integer data type")
  ELSE IF data_t.cat = "signed"
  THEN CASE data_t.size = 1 -> Ok(CV_MAKETYPE(CV_8S, channel_count))
         [] data_t.size = 2 -> Ok(CV_MAKETYPE(CV_16S, channel_count))
         [] data_t.size = 4 -> Ok(CV_MAKETYPE(CV_32S, channel_count))
         [] OTHER -> InvalidArgument("Invalid bitdepth for signed integer data type")
  ELSE CASE data_t.size = 2 -> Ok(CV_MAKETYPE(CV_16F, channel_count))
         [] data_t.size = 4 -> Ok(CV_MAKETYPE(CV_32F, channel_count))
         [] data_t.size = 8 -> Ok(CV_MAKETYPE(CV_64F, channel_count))
         [] OTHER -> InvalidArgument("Invalid bitdepth for floating point data type")

get_mat_datatype(data_t, channel_count) ==
  IF channel_count < 1 \/ channel_count > 511
  THEN InvalidArgument("Invalid channel count")
  ELSE IF data_t.cat = "unsigned"
  THEN CASE data_t.size = 1 -> Ok(CV_MAKETYPE(CV_8U, channel_count))
         [] data_t.size = 2 -> Ok(CV_MAKETYPE(CV_16U, channel_count))
         [] OTHER -> InvalidArgument("Invalid bitdepth for unsigned integer data type")
  ELSE IF data_t.cat = "signed"
  THEN CASE data_t.size = 1 -> Ok(CV_MAKETYPE(CV_8S, channel_count))
         [] data_t.size = 2 -> Ok(CV_MAKETYPE(CV_16S, channel_count))
         [] data_t.size = 4 -> Ok(CV_MAKETYPE(CV_32S, channel_count))
         [] OTHER -> InvalidArgument("Invalid bitdepth for signed integer data type")
  ELSE CASE data_t.size = 2 -> Ok(CV_MAKETYPE(CV_16F, channel_count))
         [] data_t.size = 4 -> Ok(CV_MAKETYPE(CV_32F, channel_count))
         [] data_t.size = 8 -> Ok(CV_MAKETYPE(CV_64F, channel_count))
         [] OTHER -> InvalidArgument("Invalid bitdepth for floating point data type")

----------------------------------------------------------------------------
(* The cube, image_t<data_t>: _width, _height, _channels, _wavelength and  *)
(* _data, with the element of pixel (x, y), channel z at index             *)
(* (y * _width + x) * _channels + z.  Sequences are 1-based, so index i    *)
(* of the source is element i + 1.                                         *)

MaxDim == 3

MaxChannels == 3

U8 == [cat |-> "unsigned", size |-> 1]

U16 == [cat |-> "unsigned", size |-> 2]

U32 == [cat |-> "unsigned", size |-> 4]

\* Sample element values of each type, the largest last.
Palette(data_t) ==
  CASE data_t.size = 1 -> <<0, 100, 200, 255>>
    [] data_t.size = 2 -> <<0, 300, 46341, 65535>>
    [] data_t.size = 4 -> <<0, 65535, 65536, 100000>>

Wavelengths(c) == [z \in 1..c |-> 500 + 10 * (z - 1)]

MakeCube(data_t, w, h, c, kind) ==
  [type |-> data_t, _width |-> w, _height |-> h, _channels |-> c,
   _wavelength |-> Wavelengths(c),
   _data |-> [k \in 1..(w * h * c) |->
                IF kind = "ramp" THEN Palette(data_t)[((k - 1) % 4) + 1]
                ELSE Palette(data_t)[2]]]

\* 4x4x2 cube of 8-bit values, 100 in channel 0 and 200 in channel 1.
ScenarioCube ==
  [type |-> U8, _width |-> 4, _height |-> 4, _channels |-> 2,
   _wavelength |-> <<500, 510>>,
   _data |-> [k \in 1..32 |-> IF k % 2 = 1 THEN 100 ELSE 200]]

\* Element type and fill of the cubes of the model.
Contents == {<<U8, "ramp">>, <<U8, "flat">>, <<U16, "ramp">>, <<U32, "ramp">>}

Cubes ==
  {MakeCube(tk[1], w, h, c, tk[2]) :
     tk \in Contents, w \in 2..MaxDim, h \in 2..MaxDim, c \in 1..MaxChannels}
  \cup {ScenarioCube}

\* img._data[i]; an index outside the buffer reads no element of the cube.
DataAt(i) ==
  IF i >= 0 /\ i < Len(img._data) THEN img._data[i + 1] ELSE -1

\* img._wavelength[z]
WavelengthAt(z) ==
  IF z >= 0 /\ z < Len(img._wavelength) THEN img._wavelength[z + 1] ELSE -1

----------------------------------------------------------------------------
(* get_spectrum_polygon(img, poly).  A point_t is [_x, _y]; a coordinate   *)
(* is a pair <<num, den>>, den > 0, standing for the double num / den.     *)

Coords == {<<-1, 2>>, <<0, 1>>, <<1, 4>>, <<3, 8>>, <<1, 1>>, <<2, 1>>}

Points == [_x : Coords, _y : Coords]

\* Coordinate spans <<low, high>> of the rectangles used as area polygons.
Spans ==
  {<< <<0, 1>>, <<1, 1>> >>, << <<1, 4>>, <<1, 1>> >>, << <<0, 1>>, <<1, 4>> >>,
   << <<3, 8>>, <<1, 1>> >>, << <<2, 1>>, <<2, 1>> >>, << <<-1, 2>>, <<0, 1>> >>}

Rect(xs, ys) ==
  << [_x |-> xs[1], _y |-> ys[1]], [_x |-> xs[2], _y |-> ys[1]],
     [_x |-> xs[2], _y |-> ys[2]], [_x |-> xs[1], _y |-> ys[2]] >>

Polygons ==
  {<< >>}
  \cup {<<p>> : p \in Points}
  \cup {<<p, p>> : p \in Points}
  \cup {Rect(xs, ys) : xs \in Spans, ys \in Spans}

RoundTowardZero(c, dim) ==
  LET t == c[1] * (dim - 1)
  IN  IF t >= 0 THEN t \div c[2] ELSE -((-t) \div c[2])

\* std::round(c * (dim - 1)): nearest integer, halves away from zero
Round(c, dim) ==
  LET t == c[1] * (dim - 1)
  IN  IF t >= 0 THEN (2 * t + c[2]) \div (2 * c[2])
      ELSE -((2 * (-t) + c[2]) \div (2 * c[2]))

\* conversion of the double c * (dim - 1) to int: truncation toward zero
Trunc(c, dim) ==
  LET t == c[1] * (dim - 1)
  IN  IF t >= 0 THEN t \div c[2] ELSE -((-t) \div c[2])

\* default-constructed spectral_mean_t inside spectrum_t res(img._channels)
DefaultSpectralMean == [wavelength |-> 0, value |-> Q(-999), std |-> Q(0)]

OutOfRangeXOnly(pt) == pt._x[1] > pt._x[2] \/ pt._x[1] < 0

\* poly.front()._x > 1.0 || ... < 0.0 || ...
OutOfRange(pt) ==
  \/ pt._x[1] > pt._x[2]
  \/ pt._x[1] < 0
  \/ pt._y[1] > pt._y[2]
  \/ pt._y[1] < 0

\* cv::Point(pt._x * (img._width - 1), pt._y * (img._height - 1))
TransformPoint(pt) ==
  [x |-> Trunc(pt._x, img._width), y |-> Trunc(pt._y, img._height)]

(* cv::fillPoly(mask, vpts, 255) for a polygon whose edges are parallel to *)
(* the axes: the pixels of the image on an edge of the polygon or inside   *)
(* it (even-odd rule) are set, the rest stay 0.                            *)
OnEdge(p, a, b) ==
  /\ (b.x - a.x) * (p.y - a.y) = (b.y - a.y) * (p.x - a.x)
  /\ (a.x <= p.x /\ p.x <= b.x) \/ (b.x <= p.x /\ p.x <= a.x)
  /\ (a.y <= p.y /\ p.y <= b.y) \/ (b.y <= p.y /\ p.y <= a.y)

\* the edge a-b crosses the ray from p to the right
CrossesRay(p, a, b) ==
  \/ /\ a.y <= p.y /\ p.y < b.y
     /\ (p.x - a.x) * (b.y - a.y) < (p.y - a.y) * (b.x - a.x)
  \/ /\ b.y <= p.y /\ p.y < a.y
     /\ (p.x - a.x) * (b.y - a.y) > (p.y - a.y) * (b.x - a.x)

FillPoly(pts) ==
  LET N == Len(pts)
      nxt(i) == pts[(i % N) + 1]
  IN  {p \in [x : 0..(img._width - 1), y : 0..(img._height - 1)] :
         \/ \E i \in 1..N : OnEdge(p, pts[i], nxt(i))
         \/ Cardinality({i \in 1..N : CrossesRay(p, pts[i], nxt(i))}) % 2 = 1}

(* loc_val * loc_val for loc_val of type data_t, converted to double.      *)
(* 8- and 16-bit operands are promoted to int; an int product above        *)
(* 2^31 - 1 is undefined: the build wraps it, keeps it in a wider          *)
(* register, or traps.  32-bit unsigned products are taken modulo 2^32.    *)
IntOverflow == {"wrap", "wide", "trap"}

Pow2_32 == NMul(NatDigits(2 ^ 16), NatDigits(2 ^ 16))

\* v * v > INT_MAX for an operand v promoted to int
Overflows(data_t, v) ==
  data_t.size < 4 /\ v > 0 /\ v > 2147483647 \div v

Square(data_t, v, ub) ==
  LET exact == NMul(NatDigits(v), NatDigits(v))
  IN  IF data_t.size = 4
      THEN ZMake(FALSE, Trim(SubSeq(exact, 1, IF Len(exact) < 4 THEN Len(exact) ELSE 4)))
      ELSE IF Overflows(data_t, v) /\ ub = "wrap"
      THEN ZMake(TRUE, NSub(Pow2_32, exact))
      ELSE ZMake(FALSE, exact)

\* index of pixel (x, y), channel z in img._data
DataIndex(x, y, z) == (y * img._width + x) * img._channels + z

\* the samples of channel z under the mask, in the order of the loops
\* (x outer, y inner); k runs over x * img._height + y
RECURSIVE MaskedValues(_, _, _)
MaskedValues(mask, z, k) ==
  IF k >= img._width * img._height THEN << >>
  ELSE LET x == k \div img._height
           y == k % img._height
       IN  (IF [x |-> x, y |-> y] \in mask
            THEN <<DataAt(DataIndex(x, y, z))>> ELSE << >>)
           \o MaskedValues(mask, z, k + 1)

RECURSIVE SumSeq(_)
SumSeq(vs) == IF vs = << >> THEN Z(0) ELSE ZAdd(Z(Head(vs)), SumSeq(Tail(vs)))

RECURSIVE SqSumSeq(_, _)
SqSumSeq(vs, ub) ==
  IF vs = << >> THEN Z(0)
  ELSE ZAdd(Square(img.type, Head(vs), ub), SqSumSeq(Tail(vs), ub))

\* double mean = sum_v[z] / n
Mean(sum, cnt) == FDivCount(QOfZ(sum), cnt)

\* sqrt((sq_sum_v[z] - 2 * sum_v[z] * mean) / n + mean * mean)
Std(sq_sum, sum, mean, cnt) ==
  FSqrt(FAdd(FDivCount(FSub(QOfZ(sq_sum), FMul(FMul(Q(2), QOfZ(sum)), mean)), cnt),
             FMul(mean, mean)))

\* the single point case: position in memory of channel 0 of the pixel
XYShift(pt) ==
  LET y_shift == Round(pt._y, img._height) * img._width
  IN  y_shift + Round(pt._x, img._width)

Channels == 0..(img._channels - 1)

NoSpectrumLocals ==
  /\ transformed_pt' = << >>
  /\ n' = 0
  /\ sum_v' = << >>
  /\ sq_sum_v' = << >>
  /\ incs' = {}

NoHistogramLocals ==
  /\ chan_reads' = {}
  /\ scanned' = FALSE
  /\ max_val' = 0
  /\ img_channels_per_wlbin' = 0
  /\ histogram_count' = 0

CallGetSpectrumPolygon(poly, ub) ==
  /\ pc = "idle"
  /\ pc' = "done"
  /\ call' = [fn |-> "get_spectrum_polygon", poly |-> poly, ub |-> ub]
  /\ img' = img
  /\ NoHistogramLocals
  /\ LET res == [z \in 1..img._channels |-> DefaultSpectralMean]
     IN
     IF Len(poly) > 1
     THEN \* polygon case
       LET tp   == [i \in 1..Len(poly) |-> TransformPoint(poly[i])]
           mask == FillPoly(tp)
           cnt  == Cardinality(mask)
           vals == [z \in 1..img._channels |-> MaskedValues(mask, z - 1, 0)]
           sums == [z \in 1..img._channels |-> SumSeq(vals[z])]
           sqs  == [z \in 1..img._channels |-> SqSumSeq(vals[z], ub)]
           trap == /\ ub = "trap"
                   /\ \E p \in mask, z \in Channels :
                        Overflows(img.type, DataAt(DataIndex(p.x, p.y, z)))
       IN
       /\ transformed_pt' = tp
       /\ IF trap
          THEN /\ ret' = [status |-> "trap", value |-> << >>]
               /\ n' = 0 /\ sum_v' = << >> /\ sq_sum_v' = << >> /\ incs' = {}
               /\ reads' = {} /\ wl_reads' = {}
          ELSE /\ n' = cnt
               /\ sum_v' = sums
               /\ sq_sum_v' = sqs
               /\ incs' = {[v |-> v, dsum |-> Z(v), dsq |-> Square(img.type, v, ub)] :
                             v \in {DataAt(DataIndex(p.x, p.y, z)) : p \in mask, z \in Channels}}
               /\ reads' = {DataIndex(p.x, p.y, z) : p \in mask, z \in Channels}
               /\ wl_reads' = Channels
               /\ ret' = Ok([z \in 1..img._channels |->
                              LET mean == Mean(sums[z], cnt)
                              IN  [wavelength |-> WavelengthAt(z - 1),
                                   value |-> mean,
                                   std |-> Std(sqs[z], sums[z], mean, cnt)]])
     ELSE IF Len(poly) = 1
     THEN \* single point case
       /\ NoSpectrumLocals
       /\ IF OutOfRange(poly[1])
          THEN /\ ret' = Ok(res)
               /\ reads' = {} /\ wl_reads' = {}
          ELSE /\ ret' = Ok([z \in 1..img._channels |->
                              [wavelength |-> WavelengthAt(z - 1),
                               value |-> Q(DataAt(XYShift(poly[1]) * img._channels + (z - 1))),
                               std |-> Q(0)]])
               /\ reads' = {XYShift(poly[1]) * img._channels + z : z \in Channels}
               /\ wl_reads' = Channels
     ELSE \* poly is empty
       /\ NoSpectrumLocals
       /\ ret' = Ok(res)
       /\ reads' = {} /\ wl_reads' = {}

CallGetMatDatatype(data_t, channel_count) ==
  /\ pc = "idle"
  /\ pc' = "done"
  /\ call' = [fn |-> "get_mat_datatype", data_t |-> data_t,
              channel_count |-> channel_count]
  /\ ret' = get_mat_datatype(data_t, channel_count)
  /\ img' = img
  /\ reads' = {} /\ wl_reads' = {}
  /\ NoSpectrumLocals
  /\ NoHistogramLocals

----------------------------------------------------------------------------
(* get_histogram(img, histogram_min_size, count_bins, wavelength_bins,     *)
(* detect_max_value, proc_mode).                                           *)

RECURSIVE SeqMax(_)
SeqMax(q) ==
  IF Len(q) = 1 THEN q[1]
  ELSE LET m == SeqMax(Tail(q)) IN IF Head(q) > m THEN Head(q) ELSE m

\* cv::minMaxLoc(const_img_mat, nullptr, &max_val, nullptr, nullptr)
MinMaxLocMax == SeqMax(img._data)

\* std::numeric_limits<data_t>::max() of an unsigned type of 1 or 2 bytes
NumericLimitsMax(data_t) == 2 ^ (8 * data_t.size) - 1

\* the samples of channel ch over the whole image
ChannelSamples(ch) ==
  [k \in 1..(img._width * img._height) |-> DataAt((k - 1) * img._channels + ch)]

\* cv::calcHist, uniform, one dimension, range {0.0f, float(max_val)}: the
\* lower boundary is inclusive and the upper boundary is exclusive (a sample
\* is counted when its bin index floor(v * bins / max_val) is below bins).
InRange(v, hi) == 0 <= v /\ v < hi

\* the bin of an in-range sample: floor(v * bins / (hi - 0))
BinIndex(v, bins, hi) == (v * bins) \div hi

\* one call of cv::calcHist for channel ch, without accumulation
CalcHist(ch, bins, hi) ==
  LET smp == ChannelSamples(ch)
  IN  [b \in 1..bins |->
         Cardinality({k \in DOMAIN smp :
                        InRange(smp[k], hi) /\ BinIndex(smp[k], bins, hi) = b - 1})]

\* the calls for c = 0 .. per - 1 of one group, accumulate = (c != 0)
RECURSIVE AccumulateHist(_, _, _, _, _)
AccumulateHist(first, per, c, bins, hi) ==
  IF c = 0 THEN CalcHist(first, bins, hi)
  ELSE LET prev == AccumulateHist(first, per, c - 1, bins, hi)
           cur  == CalcHist(first + c, bins, hi)
       IN  [b \in 1..bins |-> prev[b] + cur[b]]

\* histogram.count[idx]: idx * bin_size, divided by 100.0 for Cube_Reflectance;
\* the exact quotient <<numerator, denominator>>
CountLabel(idx, hi, bins, proc_mode) ==
  <<idx * hi, IF proc_mode = "Cube_Reflectance" THEN bins * 100 ELSE bins>>

\* the histogram_t of group `count`
Histogram(count, per, bins, hi, proc_mode) ==
  [wavelength |-> WavelengthAt(count * per + (per \div 2)),
   count      |-> [b \in 1..bins |-> CountLabel(b - 1, hi, bins, proc_mode)],
   occurrence |-> AccumulateHist(count * per, per, per - 1, bins, hi)]

\* the build's outcomes of the integer division by zero
DivByZero == {"trap", "zero"}

\* static_cast<const int>(double(img._channels) / double(wavelength_bins))
ChannelsPerWlbin(wavelength_bins) == img._channels \div wavelength_bins

CallGetHistogram(histogram_min_size, count_bins, wavelength_bins, detect_max_value, proc_mode, ndebug, ub) ==
  /\ pc = "idle"
  /\ pc' = "done"
  /\ call' = [fn |-> "get_histogram", histogram_min_size |-> histogram_min_size,
              count_bins |-> count_bins, wavelength_bins |-> wavelength_bins,
              detect_max_value |-> detect_max_value, proc_mode |-> proc_mode,
              ndebug |-> ndebug,
              ub |-> IF ChannelsPerWlbin(wavelength_bins) = 0 THEN ub ELSE "none"]
  /\ img' = img
  /\ reads' = {}
  /\ NoSpectrumLocals
  /\ LET mat == get_mat_datatype(img.type, img._channels)
         hi  == IF detect_max_value THEN MinMaxLocMax ELSE NumericLimitsMax(img.type)
         per == ChannelsPerWlbin(wavelength_bins)
         hc  == IF per = 0 THEN 0 ELSE img._channels \div per
     IN
     IF ~ndebug /\ ~(img._height * img._width * img._channels > histogram_min_size)
     THEN \* assert fails
       /\ ret' = [status |-> "assert_failed", value |-> << >>]
       /\ wl_reads' = {} /\ chan_reads' = {} /\ scanned' = FALSE
       /\ max_val' = 0 /\ img_channels_per_wlbin' = 0 /\ histogram_count' = 0
     ELSE IF mat.status # "ok"
     THEN \* get_mat_datatype throws
       /\ ret' = mat
       /\ wl_reads' = {} /\ chan_reads' = {} /\ scanned' = FALSE
       /\ max_val' = 0 /\ img_channels_per_wlbin' = 0 /\ histogram_count' = 0
     ELSE IF per = 0 /\ ub = "trap"
     THEN \* img._channels / 0 raises SIGFPE
       /\ ret' = [status |-> "sigfpe", value |-> << >>]
       /\ wl_reads' = {} /\ chan_reads' = {} /\ scanned' = detect_max_value
       /\ max_val' = hi /\ img_channels_per_wlbin' = per /\ histogram_count' = 0
     ELSE
       /\ max_val' = hi
       /\ img_channels_per_wlbin' = per
       /\ histogram_count' = hc
       /\ scanned' = (detect_max_value \/ hc > 0)
       /\ chan_reads' = {c + count * per : c \in 0..(per - 1), count \in 0..(hc - 1)}
       /\ wl_reads' = {count * per + (per \div 2) : count \in 0..(hc - 1)}
       /\ ret' = Ok([i \in 1..hc |-> Histogram(i - 1, per, count_bins, hi, proc_mode)])

MinSizes == {0, 12}

CountBins == {1, 2, 3}

ProcModes == {"Cube_Raw", "Cube_Reflectance"}

\* The build (NDEBUG or not) shows only where the assertion fails, the outcome
\* of the division by zero only where img_channels_per_wlbin is 0.
GetHistogram ==
  \E histogram_min_size \in MinSizes, count_bins \in CountBins,
     wavelength_bins \in 1..(MaxChannels + 1), detect_max_value \in BOOLEAN,
     proc_mode \in ProcModes, ndebug \in BOOLEAN, ub \in DivByZero :
    /\ ndebug \/ ~(img._height * img._width * img._channels > histogram_min_size)
    /\ ub = "trap" \/ ChannelsPerWlbin(wavelength_bins) = 0
    /\ CallGetHistogram(histogram_min_size, count_bins, wavelength_bins,
                        detect_max_value, proc_mode, ndebug, ub)

\* template arguments and channel counts get_mat_datatype is instantiated with
DataTypes == [cat : {"unsigned", "signed", "floating"}, size : {1, 2, 4, 8, 16}]

ChannelCounts == {-1, 0, 1, 2, 510, 511, 512, 513}

Init ==
  /\ img \in Cubes
  /\ pc = "idle"
  /\ call = [fn |-> "none"]
  /\ ret = [status |-> "none", value |-> << >>]
  /\ transformed_pt = << >>
  /\ n = 0
  /\ sum_v = << >>
  /\ sq_sum_v = << >>
  /\ incs = {}
  /\ reads = {}
  /\ wl_reads = {}
  /\ chan_reads = {}
  /\ scanned = FALSE
  /\ max_val = 0
  /\ img_channels_per_wlbin = 0
  /\ histogram_count = 0

\* Only the square of a 16-bit element can exceed the range of int.
GetSpectrumPolygon ==
  \E poly \in Polygons, ub \in IntOverflow :
    /\ ub = "wrap" \/ (img.type.size = 2 /\ Len(poly) > 1)
    /\ CallGetSpectrumPolygon(poly, ub)

GetMatDatatype == \E t \in DataTypes, c \in ChannelCounts : CallGetMatDatatype(t, c)

Next == GetSpectrumPolygon \/ GetHistogram \/ GetMatDatatype

Spec == Init /\ [][Next]_vars

SpecSpectrum == Init /\ [][GetSpectrumPolygon]_vars

SpecHistogram == Init /\ [][GetHistogram]_vars

SpecMat == Init /\ [][GetMatDatatype]_vars

----------------------------------------------------------------------------
(* Properties.                                                             *)

SpectrumDone == pc = "done" /\ call.fn = "get_spectrum_polygon"

HistogramDone == pc = "done" /\ call.fn = "get_histogram"

\* the coordinate c lies outside [0, 1]
Outside(c) == c[1] < 0 \/ c[1] > c[2]

\* px is the integer nearest to c * (dim - 1), halves away from zero
Nearest(px, c, dim) ==
  LET d == 2 * (px * c[2] - c[1] * (dim - 1))
  IN  IF c[1] >= 0 THEN -c[2] < d /\ d <= c[2] ELSE -c[2] <= d /\ d < c[2]

SentinelEntry == [wavelength |-> 0, value |-> Q(-999), std |-> Q(0)]

IsSentinel(spectrum) ==
  /\ Len(spectrum) = img._channels
  /\ \A z \in 1..Len(spectrum) : spectrum[z] = SentinelEntry

\* C1: for an empty polygon, and for a single point with a coordinate outside
\* [0, 1], the call returns one entry per channel, each with value -999.0 and
\* std 0.0 (and the value-initialised wavelength 0), so both cases return the
\* same spectrum for the same cube.
C1_SentinelSpectrum ==
  (/\ SpectrumDone
   /\ \/ Len(call.poly) = 0
      \/ Len(call.poly) = 1 /\ (Outside(call.poly[1]._x) \/ Outside(call.poly[1]._y)))
  => /\ ret.status = "ok"
     /\ IsSentinel(ret.value)
     /\ reads = {}

C1_Witness ==
  /\ SpectrumDone
  /\ call.poly = << [_x |-> <<1, 4>>, _y |-> <<-1, 2>>] >>
  /\ img._channels = 2
  /\ ret.status = "ok"
  /\ ret.value[2].value = Q(-999)

\* C2: for a single point inside [0, 1] x [0, 1] the call returns, per channel
\* z, the raw element at ((round(y*(H-1)) * W + round(x*(W-1))) * C + z, the
\* wavelength of channel z and std 0.0, and reads only inside the buffer.
C2_SinglePoint ==
  (/\ SpectrumDone
   /\ Len(call.poly) = 1
   /\ ~Outside(call.poly[1]._x) /\ ~Outside(call.poly[1]._y))
  => \E px \in 0..(img._width - 1), py \in 0..(img._height - 1) :
       /\ Nearest(px, call.poly[1]._x, img._width)
       /\ Nearest(py, call.poly[1]._y, img._height)
       /\ ret.status = "ok"
       /\ Len(ret.value) = img._channels
       /\ \A z \in 0..(img._channels - 1) :
            LET idx == (py * img._width + px) * img._channels + z
            IN  /\ idx \in reads
                /\ ret.value[z + 1] =
                     [wavelength |-> img._wavelength[z + 1],
                      value |-> Q(img._data[idx + 1]),
                      std |-> Q(0)]
       /\ reads \subseteq 0..(img._width * img._height * img._channels - 1)
       /\ Cardinality(reads) = img._channels

C2_Witness ==
  /\ SpectrumDone
  /\ call.poly = << [_x |-> <<1, 4>>, _y |-> <<1, 1>>] >>
  /\ img._width = 3 /\ img._height = 2 /\ img._channels = 2
  /\ img.type = U16
  /\ ret.status = "ok"
  /\ ret.value[2].value = Q(img._data[(1 * 3 + 1) * 2 + 1 + 1])

UnitSquare == Rect(<< <<0, 1>>, <<1, 1>> >>, << <<0, 1>>, <<1, 1>> >>)

\* the sum, and the sum of the squares, of channel z over pixels k .. W*H of
\* the full plane, as integers of unbounded size
RECURSIVE PlaneSum(_, _)
PlaneSum(z, k) ==
  IF k > img._width * img._height THEN Z(0)
  ELSE ZAdd(Z(img._data[(k - 1) * img._channels + z + 1]), PlaneSum(z, k + 1))

RECURSIVE PlaneSqSum(_, _)
PlaneSqSum(z, k) ==
  IF k > img._width * img._height THEN Z(0)
  ELSE LET v == Z(img._data[(k - 1) * img._channels + z + 1])
       IN  ZAdd(ZMul(v, v), PlaneSqSum(z, k + 1))

\* the square of a std entry
StdSquared(s) == IF s.kind = "sqrt" THEN s.of ELSE FMul(s, s)

\* C3: for the unit square every pixel is inside (n = W*H) and every channel
\* z gets wavelength table[z], value = mean of the plane (n * value = sum) and
\* std = population standard deviation (n^2 * std^2 = n * sqsum - sum^2); the
\* 4x4x2 cube of 100 / 200 yields {500, 100, 0}, {510, 200, 0}.  Stated for
\* the calls that return.
C3_UnitSquareMeanStd ==
  (SpectrumDone /\ call.poly = UnitSquare /\ ret.status = "ok")
  => /\ n = img._width * img._height
     /\ Len(ret.value) = img._channels
     /\ \A z \in 0..(img._channels - 1) :
          LET e  == ret.value[z + 1]
              S  == PlaneSum(z, 1)
              SQ == PlaneSqSum(z, 1)
          IN  /\ e.wavelength = img._wavelength[z + 1]
              /\ FEq(FMul(Q(n), e.value), QOfZ(S))
              /\ FEq(FMul(Q(n * n), StdSquared(e.std)),
                     QOfZ(ZAdd(ZMul(Z(n), SQ), ZNeg(ZMul(S, S)))))
     /\ img = ScenarioCube
          => /\ ret.value[1].wavelength = 500 /\ ret.value[2].wavelength = 510
             /\ FEq(ret.value[1].value, Q(100)) /\ FEq(ret.value[2].value, Q(200))
             /\ FEq(ret.value[1].std, Q(0)) /\ FEq(ret.value[2].std, Q(0))

\* C4: the occurrence counts of every histogram sum to at most
\* channels_per_group * W * H, and to exactly that when detect_max_value is set.
RECURSIVE SeqSum(_)
SeqSum(q) == IF q = << >> THEN 0 ELSE Head(q) + SeqSum(Tail(q))

C4_NoSampleDropped ==
  (HistogramDone /\ ret.status = "ok")
  => \A i \in 1..Len(ret.value) :
       LET total   == SeqSum(ret.value[i].occurrence)
           samples == img_channels_per_wlbin * img._width * img._height
       IN  /\ total <= samples
           /\ call.detect_max_value => total = samples

\* C5: get_mat_datatype fails with an invalid-argument error exactly when the
\* channel count is outside 1..511 or the byte width is unsupported for the
\* category (unsigned: 1, 2; signed: 1, 2, 4; floating: 2, 4, 8), and returns
\* a descriptor otherwise; a bad channel count fails for every element type.
SupportedWidth(data_t) ==
  \/ data_t.cat = "unsigned" /\ data_t.size \in {1, 2}
  \/ data_t.cat = "signed" /\ data_t.size \in {1, 2, 4}
  \/ data_t.cat = "floating" /\ data_t.size \in {2, 4, 8}

C5_MatDatatypeErrors ==
  (pc = "done" /\ call.fn = "get_mat_datatype")
  => LET bad == \/ call.channel_count < 1
                \/ call.channel_count > 511
                \/ ~SupportedWidth(call.data_t)
     IN  /\ bad => ret.status = "invalid_argument"
         /\ ~bad => ret.status = "ok" /\ ret.value \in 0..(512 * 8 - 1)

C5_Witness ==
  /\ pc = "done" /\ call.fn = "get_mat_datatype"
  /\ call.data_t = [cat |-> "unsigned", size |-> 4]
  /\ call.channel_count = 511
  /\ ret.status = "invalid_argument"

\* C6: for 1 <= wavelength_bins <= C the call returns exactly wavelength_bins
\* histograms, one per group of channels in increasing channel order.
C6_OneHistogramPerBin ==
  (/\ HistogramDone /\ ret.status = "ok"
   /\ 1 <= call.wavelength_bins /\ call.wavelength_bins <= img._channels)
  => /\ Len(ret.value) = call.wavelength_bins
     /\ \A i \in 1..Len(ret.value) :
          ret.value[i].wavelength =
            img._wavelength[(i - 1) * img_channels_per_wlbin
                            + (img_channels_per_wlbin \div 2) + 1]

\* C7: in the polygon case every vertex is mapped to the nearest pixel
\* (round(x*(W-1)), round(y*(H-1))), as in the single point case, so a polygon
\* that repeats one in-range vertex reads the pixel the single point reads.
\* Stated for the vertices inside [0, 1] x [0, 1].
C7_VerticesRounded ==
  (SpectrumDone /\ Len(call.poly) > 1)
  => /\ \A i \in 1..Len(call.poly) :
          (~Outside(call.poly[i]._x) /\ ~Outside(call.poly[i]._y)) =>
          /\ Nearest(transformed_pt[i].x, call.poly[i]._x, img._width)
          /\ Nearest(transformed_pt[i].y, call.poly[i]._y, img._height)
     /\ (/\ Len(call.poly) = 2 /\ call.poly[1] = call.poly[2]
         /\ ~Outside(call.poly[1]._x) /\ ~Outside(call.poly[1]._y)
         /\ ret.status = "ok")
        => reads = {XYShift(call.poly[1]) * img._channels + z : z \in Channels}

\* C8: a polygon whose mask has no inside pixel (n = 0) yields the sentinel
\* spectrum or an error, never entries computed from a division by n = 0.
C8_EmptyMaskDefined ==
  (SpectrumDone /\ Len(call.poly) > 1 /\ ret.status = "ok" /\ n = 0)
  => /\ IsSentinel(ret.value)
     /\ \A z \in 1..Len(ret.value) :
          IsNum(ret.value[z].value) /\ IsNum(ret.value[z].std)

\* C9: for every inside pixel and channel, sum grows by the element v and
\* sqsum by the mathematical square v * v, whatever the element type.  Stated
\* for the calls that return.
C9_ExactSquares ==
  (SpectrumDone /\ Len(call.poly) > 1 /\ ret.status = "ok")
  => \A inc \in incs :
          inc.dsum = Z(inc.v) /\ inc.dsq = ZMul(Z(inc.v), Z(inc.v))

\* C10: every call of get_histogram either fails a precondition or argument
\* check before any cube data is scanned, or returns a HistogramVector having
\* read only channel and wavelength indices in [0, C); none fails part-way.
C10_NoPartialFailure ==
  HistogramDone
  => \/ ret.status \in {"assert_failed", "invalid_argument"} /\ ~scanned
     \/ /\ ret.status = "ok"
        /\ chan_reads \subseteq 0..(img._channels - 1)
        /\ wl_reads \subseteq 0..(img._channels - 1)

====
